---- MODULE Spec2Model ----
(***************************************************************************)
(* Connection Manager (main/wifi_manager.c) and Delivery Client           *)
(* (main/http_client.c) of the telemetry firmware.  The two share no       *)
(* state: Spec runs the first, HttpSpec the second.                        *)
(* AppSpec runs both under app_main (main/main.c), which calls them in the *)
(* order of its code.                                                      *)
(*                                                                         *)
(* Two threads act on the module context s_context: the orchestration task *)
(* that calls the public functions, and the event-loop task that runs      *)
(* wifi_event_handler.  The handler runs to completion with respect to the *)
(* orchestration task, so it is one action; wifi_manager_connect blocks in *)
(* xEventGroupWaitBits, so it is split at its statements and pc holds the  *)
(* orchestration task's position inside it.                                *)
(***************************************************************************)
EXTENDS Integers, FiniteSets, Sequences, TLC

\* ------------------------------------------------------------------ bounds
\* Largest value of CONFIG_TCP_CLIENT_MAXIMUM_RETRY the model is run with.
MaxRetryBound == 2
\* The per-attempt tallies of xEventGroupSetBits calls saturate here.
MaxSetCalls == 2
\* Requests the orchestration task makes of the Delivery Client.
MaxCalls == 2
\* HTTP_EVENT_ON_DATA callbacks within one request.
MaxChunks == 2
\* HTTP_EVENT_ERROR callbacks within one request.
MaxErrorEvents == 1

\* --------------------------------------------------------------- constants
WIFI_STATUS_DISCONNECTED == "DISCONNECTED"
WIFI_STATUS_CONNECTING == "CONNECTING"
WIFI_STATUS_CONNECTED == "CONNECTED"
WIFI_STATUS_FAILED == "FAILED"
WIFI_STATUS_ERROR == "ERROR"
wifi_status_t == {WIFI_STATUS_DISCONNECTED, WIFI_STATUS_CONNECTING,
                  WIFI_STATUS_CONNECTED, WIFI_STATUS_FAILED, WIFI_STATUS_ERROR}

WIFI_CONNECTED_BIT == "BIT0"
WIFI_FAIL_BIT == "BIT1"
EventBits == {WIFI_CONNECTED_BIT, WIFI_FAIL_BIT}

ESP_OK == "ESP_OK"
ESP_FAIL == "ESP_FAIL"
ESP_ERR_TIMEOUT == "ESP_ERR_TIMEOUT"
ESP_ERR_INVALID_STATE == "ESP_ERR_INVALID_STATE"
ESP_ERR_NO_MEM == "ESP_ERR_NO_MEM"
ESP_ERR_WIFI_NOT_CONNECT == "ESP_ERR_WIFI_NOT_CONNECT"
\* an error code handed back by the WiFi driver (esp_wifi_set_mode, ...)
ESP_ERR_WIFI == "ESP_ERR_WIFI"
ESP_ERR_INVALID_ARG == "ESP_ERR_INVALID_ARG"

VARIABLES
    \* s_context (wifi_manager.c:24-43)
    initialized, status, retry_count, event_group, netif_instance,
    wifi_handler_instance, ip_handler_instance,
    \* the bits held by the event group s_context.event_group
    event_bits,
    \* the WiFi driver: started (between esp_wifi_start and esp_wifi_stop),
    \* a WIFI_EVENT_STA_START posted and not yet handled, and the station's
    \* link: "down", "joining" (an esp_wifi_connect is in progress) or "up"
    wifi_started, sta_start_pending, link,
    \* CONFIG_TCP_CLIENT_MAXIMUM_RETRY, fixed at build time
    max_retry,
    \* orchestration task: position, the local `bits` of
    \* wifi_manager_connect, the last public function called and its result
    pc, bits, last_call, ret,
    \* history: disconnected events in a row since retry_count was last
    \* reset (saturating at max_retry + 1), xEventGroupSetBits calls per bit
    \* since wifi_manager_connect was last entered (saturating), the status
    \* in which the last address-acquired event was handled ("none" once
    \* wifi_manager_connect has reset retry_count after it), and the last
    \* step taken
    disc_run, nset, got_ip_from, last_op,
    \* the station interface object made by
    \* esp_netif_create_default_wifi_sta exists (it is not destroyed)
    netif_live,
    \* history of the last public function called: it asked the driver to
    \* tear the link down (esp_wifi_disconnect), and, for
    \* wifi_manager_disconnect, the status it found
    teardown, status_at_call,
    \* s_context (http_client.c:23-38); response_buffer is the pointer,
    \* "NULL" or "heap", and heap the bytes of the block it points to
    http_initialized, stats, last_response, response_buffer,
    response_buffer_size, heap,
    \* the caller of the Delivery Client: "idle", or "perform" while it is
    \* inside esp_http_client_perform; the local `client` of
    \* perform_http_post; the value of esp_timer_get_time
    hpc, client, esp_timer,
    \* history of the last Delivery Client call: its name, its result, what
    \* it stored through its out-pointer, the last step taken, how far it
    \* got, the result of esp_http_client_perform, and the statistics it
    \* found
    h_call, h_ret, h_out, h_op, stage, transport, stats_at_call,
    \* history of the current request: bytes and callbacks delivered, error
    \* events, and the highest index of the block written since malloc
    received, nchunks, nerr, hi_write,
    \* main.c: the position of app_main ("free" when the functions are
    \* called in any order, by any caller), and the local `ret` of
    \* connect_to_wifi ("none" until wifi_manager_connect has returned)
    apc, wifi_ret

vars == <<initialized, status, retry_count, event_group, netif_instance,
          wifi_handler_instance, ip_handler_instance, event_bits,
          wifi_started, sta_start_pending, link, max_retry, pc, bits,
          last_call, ret, disc_run, nset, got_ip_from, last_op,
          netif_live, teardown, status_at_call,
          http_initialized, stats, last_response, response_buffer,
          response_buffer_size, heap, hpc, client, esp_timer,
          h_call, h_ret, h_out, h_op, stage, transport, stats_at_call,
          received, nchunks, nerr, hi_write, apc, wifi_ret>>

ctx == <<initialized, status, retry_count, event_group, netif_instance,
         wifi_handler_instance, ip_handler_instance>>
task == <<pc, bits, last_call, ret>>
driver == <<wifi_started, sta_start_pending, link>>
call == <<teardown, status_at_call>>
http == <<http_initialized, stats, last_response, response_buffer,
          response_buffer_size, heap, hpc, client, esp_timer,
          h_call, h_ret, h_out, h_op, stage, transport, stats_at_call,
          received, nchunks, nerr, hi_write>>
hctx == <<http_initialized, stats, last_response, response_buffer,
          response_buffer_size, heap>>
request == <<received, nchunks, nerr>>
hcall == <<h_call, h_ret, h_out, stage, transport, stats_at_call>>
wifi == <<ctx, event_bits, driver, max_retry, task, disc_run, nset,
          got_ip_from, last_op, netif_live, call>>
app == <<apc, wifi_ret>>

\* memset(&s_context.stats, 0, ...) and memset(&s_context.last_response, 0,
\* ...)
ZeroStats ==
    [initialized |-> FALSE, total_requests |-> 0, successful_requests |-> 0,
     failed_requests |-> 0, timeout_count |-> 0, network_errors |-> 0,
     last_request_time |-> 0, last_status_code |-> 0]
ZeroResponse ==
    [status_code |-> 0, content_length |-> 0, response_data |-> "NULL",
     response_data_len |-> 0, success |-> FALSE]
\* a block nobody allocated, and the bytes of a block malloc just returned
NoBlock == [i \in {} |-> 0]
Indeterminate == -1

WIFI_MAXIMUM_RETRY == max_retry

\* ------------------------------------------------------------------- Init
\* The static initialisers of the two s_context; no event group exists yet.
StaticInit ==
    /\ initialized = FALSE
    /\ status = WIFI_STATUS_DISCONNECTED
    /\ retry_count = 0
    /\ event_group = FALSE
    /\ netif_instance = FALSE
    /\ wifi_handler_instance = FALSE
    /\ ip_handler_instance = FALSE
    /\ event_bits = {}
    /\ wifi_started = FALSE
    /\ sta_start_pending = FALSE
    /\ link = "down"
    /\ max_retry \in 0..MaxRetryBound
    /\ pc = "idle"
    /\ bits = {}
    /\ last_call = "none"
    /\ ret = "none"
    /\ disc_run = 0
    /\ nset = [b \in EventBits |-> 0]
    /\ got_ip_from = "none"
    /\ last_op = "none"
    /\ netif_live = FALSE
    /\ teardown = FALSE
    /\ status_at_call = "none"
    /\ http_initialized = FALSE
    /\ stats = ZeroStats
    /\ last_response = ZeroResponse
    /\ response_buffer = "NULL"
    /\ response_buffer_size = 0
    /\ heap = NoBlock
    /\ hpc = "idle"
    /\ client = "NULL"
    /\ esp_timer = 0
    /\ h_call = "none"
    /\ h_ret = "none"
    /\ h_out = "none"
    /\ h_op = "none"
    /\ stage = "none"
    /\ transport = "none"
    /\ stats_at_call = ZeroStats
    /\ received = 0
    /\ nchunks = 0
    /\ nerr = 0
    /\ hi_write = -1

\* The two services on their own: their functions are called in any order.
Init ==
    /\ StaticInit
    /\ apc = "free"
    /\ wifi_ret = "none"

\* ------------------------------------------------- the callers in main.c
\* ESP_ERROR_CHECK(rc): abort() unless rc is ESP_OK; to is where app_main
\* goes on
ESP_ERROR_CHECK_ignored(rc, to) == to
ESP_ERROR_CHECK(rc, to) == IF rc = ESP_OK THEN to ELSE "abort"

\* a function that app_main calls at one of the positions `at` and that has
\* returned: app_main goes on at `to`
Called(at, to) ==
    IF apc = "free"
    THEN UNCHANGED app
    ELSE apc \in at /\ apc' = to /\ UNCHANGED wifi_ret

\* a function that main.c does not call before its endless loop is left
NotCalled == apc = "free" /\ UNCHANGED app

\* connect_to_wifi (lines 113-140) around wifi_manager_connect, and the
\* ESP_ERROR_CHECK of line 257 on what it returns
AfterConnect ==
    IF apc = "free"
    THEN UNCHANGED app
    ELSE IF pc' # "idle"
    THEN apc' = "connecting" /\ UNCHANGED wifi_ret
    ELSE /\ wifi_ret' = ret'
         /\ apc' = (IF ret' = ESP_OK THEN "ip_info"
                    ELSE ESP_ERROR_CHECK(ret', "cycle"))

\* perform_data_transmission (lines 170-189) around
\* http_client_post_sensor_data(&sensor_data)
AfterPost ==
    IF apc = "free"
    THEN UNCHANGED app
    ELSE /\ stage' # "invalid_arg"
         /\ UNCHANGED wifi_ret
         /\ apc' = (IF hpc' = "perform" THEN "posting"
                    ELSE IF h_ret' = ESP_OK THEN "last_response"
                    ELSE "get_stats")

\* --------------------------------------------- the shared signal primitive
\* xClearOnExit as wifi_manager_connect passes it to xEventGroupWaitBits
xClearOnExit_set == TRUE
xClearOnExit == FALSE

\* the group's value once a wait that found its bits has returned
AfterWait(group) == IF xClearOnExit THEN group \ EventBits ELSE group

\* xEventGroupSetBits(s_context.event_group, b), called by the handler: sets
\* the bit, and a task blocked in xEventGroupWaitBits on it is unblocked
\* with the value the group has at this moment.
xEventGroupSetBits(b) ==
    /\ nset' = [nset EXCEPT ![b] = IF @ < MaxSetCalls THEN @ + 1 ELSE @]
    /\ IF pc = "wait"
       THEN /\ pc' = "c249"
            /\ bits' = event_bits \cup {b}
            /\ event_bits' = AfterWait(event_bits \cup {b})
       ELSE /\ event_bits' = event_bits \cup {b}
            /\ UNCHANGED <<pc, bits>>

\* ------------------------------------------------------ wifi_event_handler
\* The event loop hands the driver's events to the handler in the order
\* they were posted, while the handler is registered and the driver runs.
WifiEventsDelivered == wifi_started /\ wifi_handler_instance
IpEventsDelivered == wifi_started /\ ip_handler_instance

\* the status stored on WIFI_EVENT_STA_START
StatusOnStaStart_connected == WIFI_STATUS_CONNECTED
StatusOnStaStart == WIFI_STATUS_CONNECTING

\* case WIFI_EVENT_STA_START
on_STA_START ==
    /\ WifiEventsDelivered
    /\ sta_start_pending
    /\ sta_start_pending' = FALSE
    /\ status' = StatusOnStaStart
    /\ link' = "joining"                          \* esp_wifi_connect()
    /\ last_op' = "STA_START"
    /\ UNCHANGED <<initialized, retry_count, event_group, netif_instance,
                   wifi_handler_instance, ip_handler_instance, event_bits,
                   wifi_started, max_retry, netif_live, call, http, task, disc_run, nset, got_ip_from>>
    /\ UNCHANGED app

\* the test that guards the retry in case WIFI_EVENT_STA_DISCONNECTED
RetryAllowed_unless_disconnected ==
    retry_count < WIFI_MAXIMUM_RETRY /\ status # WIFI_STATUS_DISCONNECTED
RetryAllowed_inclusive == retry_count <= WIFI_MAXIMUM_RETRY
RetryAllowed == retry_count < WIFI_MAXIMUM_RETRY

\* line 70: the status stored when the allowance is used up
StatusOnExhausted_disconnected == WIFI_STATUS_DISCONNECTED
StatusOnExhausted == WIFI_STATUS_FAILED

\* case WIFI_EVENT_STA_DISCONNECTED: a join that failed, a link that
\* dropped, or an event the driver repeats
on_STA_DISCONNECTED ==
    /\ WifiEventsDelivered
    /\ ~sta_start_pending
    /\ disc_run' = (IF disc_run <= max_retry THEN disc_run + 1 ELSE disc_run)
    /\ last_op' = "STA_DISCONNECTED"
    /\ IF RetryAllowed
       THEN /\ link' = "joining"                  \* esp_wifi_connect()
            /\ retry_count' = retry_count + 1
            /\ status' = WIFI_STATUS_CONNECTING
            /\ UNCHANGED <<event_bits, nset, pc, bits>>
       ELSE /\ link' = "down"
            /\ status' = StatusOnExhausted
            /\ xEventGroupSetBits(WIFI_FAIL_BIT)
            /\ UNCHANGED retry_count
    /\ UNCHANGED <<initialized, event_group, netif_instance,
                   wifi_handler_instance, ip_handler_instance,
                   wifi_started, sta_start_pending, max_retry, netif_live, call, http, last_call,
                   ret, got_ip_from>>
    /\ UNCHANGED app

\* the retry count the handler stores on IP_EVENT_STA_GOT_IP
RetryCountOnGotIp_kept == retry_count
RetryCountOnGotIp == 0

\* case IP_EVENT_STA_GOT_IP: the join the handler asked for has succeeded,
\* or the address of a link that is up has changed
on_STA_GOT_IP ==
    /\ IpEventsDelivered
    /\ ~sta_start_pending
    /\ link # "down"
    /\ link' = "up"
    /\ got_ip_from' = status
    /\ retry_count' = RetryCountOnGotIp
    /\ disc_run' = 0
    /\ status' = WIFI_STATUS_CONNECTED
    /\ xEventGroupSetBits(WIFI_CONNECTED_BIT)
    /\ last_op' = "STA_GOT_IP"
    /\ UNCHANGED <<initialized, event_group, netif_instance,
                   wifi_handler_instance, ip_handler_instance,
                   wifi_started, sta_start_pending, max_retry, netif_live, call, http, last_call, ret>>
    /\ UNCHANGED app

\* default: any other WiFi or IP event is only logged
on_other_event ==
    /\ WifiEventsDelivered
    /\ last_op' = "other_event"
    /\ UNCHANGED <<ctx, event_bits, driver, max_retry, netif_live, call, http, task,
                   disc_run, nset, got_ip_from>>
    /\ UNCHANGED app

wifi_event_handler ==
    \/ on_STA_START
    \/ on_STA_DISCONNECTED
    \/ on_STA_GOT_IP
    \/ on_other_event

\* -------------------------------------------------------- wifi_manager_init
\* The step of wifi_manager_init that can fail, "none" for a successful run.
InitFailures == {"none", "event_group", "netif_init", "event_loop",
                 "netif_create", "wifi_init", "register_wifi", "register_ip"}

\* TRUE when a run that fails at step f has already passed step s
InitPassed(f, s) ==
    LET order == <<"event_group", "netif_init", "event_loop", "netif_create",
                   "wifi_init", "register_wifi", "register_ip", "none">>
        pos(x) == CHOOSE i \in 1..Len(order) : order[i] = x
    IN pos(s) < pos(f)

wifi_manager_init ==
    /\ pc = "idle"
    /\ last_call' = "init"
    /\ last_op' = "init"
    /\ teardown' = FALSE
    /\ status_at_call' = "none"
    /\ IF initialized
       THEN /\ ret' = ESP_OK
            /\ UNCHANGED <<ctx, event_bits, disc_run, netif_live>>
       ELSE \E f \in InitFailures :
            /\ netif_instance' = (netif_instance \/ InitPassed(f, "netif_create"))
            /\ netif_live' = (netif_live \/ InitPassed(f, "netif_create"))
            /\ wifi_handler_instance' =
                   (wifi_handler_instance \/ InitPassed(f, "register_wifi"))
            /\ ip_handler_instance' =
                   (ip_handler_instance \/ InitPassed(f, "register_ip"))
            /\ event_bits' = {}
            /\ IF f = "none"
               THEN /\ event_group' = TRUE
                    /\ initialized' = TRUE
                    /\ status' = WIFI_STATUS_DISCONNECTED
                    /\ retry_count' = 0
                    /\ disc_run' = 0
                    /\ ret' = ESP_OK
               ELSE \* error_cleanup: only the event group is deleted
                    /\ event_group' = FALSE
                    /\ ret' = IF f = "event_group" THEN ESP_ERR_NO_MEM
                              ELSE IF f = "netif_create" THEN ESP_FAIL
                              ELSE ESP_ERR_WIFI
                    /\ UNCHANGED <<initialized, status, retry_count, disc_run>>
    /\ UNCHANGED <<driver, max_retry, http, pc, bits, nset, got_ip_from>>
    /\ Called({"wifi_init"}, ESP_ERROR_CHECK(ret', "sensor_init"))

\* ----------------------------------------------------- wifi_manager_connect
\* the test of line 191
ConnectRejected_never == FALSE
ConnectRejected == ~initialized

\* lines 191-199: the two early returns
connect_enter ==
    /\ pc = "idle"
    /\ last_call' = "connect"
    /\ last_op' = "connect_enter"
    /\ teardown' = FALSE
    /\ status_at_call' = "none"
    /\ IF ConnectRejected
       THEN ret' = ESP_ERR_INVALID_STATE /\ UNCHANGED <<pc, nset>>
       ELSE IF status = WIFI_STATUS_CONNECTED
       THEN ret' = ESP_OK /\ UNCHANGED <<pc, nset>>
       ELSE /\ ret' = "pending"
            /\ pc' = "c217"
            /\ nset' = [b \in EventBits |-> 0]
    /\ UNCHANGED <<ctx, event_bits, driver, max_retry, netif_live, http, bits, disc_run,
                   got_ip_from>>
    /\ apc \in {"free", "connect"} /\ AfterConnect

\* line 217: s_context.retry_count = 0
connect_reset_count ==
    /\ pc = "c217"
    /\ retry_count' = 0
    /\ disc_run' = 0
    /\ got_ip_from' = "none"
    /\ pc' = "c218"
    /\ last_op' = "connect_reset_count"
    /\ UNCHANGED <<initialized, status, event_group, netif_instance,
                   wifi_handler_instance, ip_handler_instance, event_bits,
                   driver, max_retry, netif_live, call, http, bits, last_call, ret, nset>>
    /\ UNCHANGED app

\* line 218: s_context.status = WIFI_STATUS_CONNECTING
connect_set_connecting ==
    /\ pc = "c218"
    /\ status' = WIFI_STATUS_CONNECTING
    /\ pc' = "c221"
    /\ last_op' = "connect_set_connecting"
    /\ UNCHANGED <<initialized, retry_count, event_group, netif_instance,
                   wifi_handler_instance, ip_handler_instance, event_bits,
                   driver, max_retry, netif_live, call, http, bits, last_call, ret,
                   disc_run, nset, got_ip_from>>
    /\ UNCHANGED app

\* lines 221-240: esp_wifi_set_mode, esp_wifi_set_config, esp_wifi_start;
\* the first of them that fails ends the call
StartFailures == {"none", "set_mode", "set_config", "start"}

connect_start ==
    /\ pc = "c221"
    /\ last_op' = "connect_start"
    /\ \E f \in StartFailures :
         IF f = "none"
         THEN /\ wifi_started' = TRUE
              /\ sta_start_pending' = TRUE
              /\ pc' = "c243"
              /\ UNCHANGED <<status, ret>>
         ELSE /\ status' = WIFI_STATUS_ERROR
              /\ ret' = ESP_ERR_WIFI
              /\ pc' = "idle"
              /\ UNCHANGED <<wifi_started, sta_start_pending>>
    /\ UNCHANGED <<initialized, retry_count, event_group, netif_instance,
                   wifi_handler_instance, ip_handler_instance, event_bits,
                   link, max_retry, netif_live, call, http, bits, last_call, disc_run, nset,
                   got_ip_from>>
    /\ AfterConnect

\* lines 243-247: xEventGroupWaitBits(CONNECTED | FAIL, no clear, any bit).
\* A bit that is already set lets the call return at once; otherwise the
\* task blocks.
connect_wait ==
    /\ pc = "c243"
    /\ last_op' = "connect_wait"
    /\ IF event_bits \cap EventBits # {}
       THEN /\ pc' = "c249"
            /\ bits' = event_bits
            /\ event_bits' = AfterWait(event_bits)
       ELSE /\ pc' = "wait"
            /\ UNCHANGED <<bits, event_bits>>
    /\ UNCHANGED <<ctx, driver, max_retry, netif_live, call, http, last_call, ret, disc_run, nset,
                   got_ip_from>>
    /\ UNCHANGED app

\* the wait as it would be with portMAX_DELAY: it never expires
connect_wait_forever == FALSE /\ UNCHANGED vars

\* WIFI_CONNECT_TIMEOUT_MS have passed with the task still blocked
connect_wait_timeout ==
    /\ pc = "wait"
    /\ pc' = "expired"
    /\ last_op' = "connect_wait_timeout"
    /\ UNCHANGED <<ctx, event_bits, driver, max_retry, netif_live, call, http, bits, last_call,
                   ret, disc_run, nset, got_ip_from>>
    /\ UNCHANGED app

\* the task runs again after the expiry: xEventGroupWaitBits returns the
\* value the group has now
connect_wait_expired ==
    /\ pc = "expired"
    /\ bits' = event_bits
    /\ event_bits' = IF event_bits \cap EventBits # {}
                     THEN AfterWait(event_bits) ELSE event_bits
    /\ pc' = "c249"
    /\ last_op' = "connect_wait_expired"
    /\ UNCHANGED <<ctx, driver, max_retry, netif_live, call, http, last_call, ret, disc_run, nset,
                   got_ip_from>>
    /\ UNCHANGED app

\* the status stored when neither bit was seen (line 257)
StatusOnTimeout_kept == status
StatusOnTimeout == WIFI_STATUS_FAILED

\* lines 249-259
connect_return ==
    /\ pc = "c249"
    /\ pc' = "idle"
    /\ last_op' = "connect_return"
    /\ IF WIFI_CONNECTED_BIT \in bits
       THEN ret' = ESP_OK /\ UNCHANGED status
       ELSE IF WIFI_FAIL_BIT \in bits
       THEN ret' = ESP_FAIL /\ UNCHANGED status
       ELSE ret' = ESP_ERR_TIMEOUT /\ status' = StatusOnTimeout
    /\ UNCHANGED <<initialized, retry_count, event_group, netif_instance,
                   wifi_handler_instance, ip_handler_instance, event_bits,
                   driver, max_retry, netif_live, call, http, bits, last_call, disc_run, nset,
                   got_ip_from>>
    /\ AfterConnect

\* -------------------------------------------------- wifi_manager_disconnect
\* the test of line 325: the states in which disconnect() asks for nothing
DisconnectRefused_notlinked ==
    status \notin {WIFI_STATUS_CONNECTED, WIFI_STATUS_CONNECTING}
DisconnectRefused == status = WIFI_STATUS_DISCONNECTED

wifi_manager_disconnect ==
    /\ pc = "idle"
    /\ last_call' = "disconnect"
    /\ last_op' = "disconnect"
    /\ status_at_call' = status
    /\ IF ~initialized
       THEN /\ ret' = ESP_ERR_INVALID_STATE
            /\ teardown' = FALSE
            /\ UNCHANGED <<status, link>>
       ELSE IF DisconnectRefused
       THEN /\ ret' = ESP_ERR_WIFI_NOT_CONNECT
            /\ teardown' = FALSE
            /\ UNCHANGED <<status, link>>
       ELSE \E ok \in BOOLEAN :   \* the result of esp_wifi_disconnect
            /\ teardown' = TRUE
            /\ IF ok
               THEN /\ ret' = ESP_OK
                    /\ status' = WIFI_STATUS_DISCONNECTED
                    /\ link' = "down"
               ELSE /\ ret' = ESP_ERR_WIFI
                    /\ UNCHANGED <<status, link>>
    /\ UNCHANGED <<initialized, retry_count, event_group, netif_instance,
                   wifi_handler_instance, ip_handler_instance, event_bits,
                   wifi_started, sta_start_pending, max_retry, netif_live, http, pc, bits,
                   disc_run, nset, got_ip_from>>
    /\ NotCalled

\* ----------------------------------------------------- wifi_manager_cleanup
wifi_manager_cleanup ==
    /\ pc = "idle"
    /\ last_call' = "cleanup"
    /\ last_op' = "cleanup"
    /\ ret' = ESP_OK
    /\ status_at_call' = "none"
    /\ teardown' = (initialized /\ status = WIFI_STATUS_CONNECTED)
    /\ IF ~initialized
       THEN UNCHANGED <<ctx, event_bits, driver, disc_run, nset>>
       ELSE \* esp_wifi_stop, unregister, vEventGroupDelete, memset 0
            /\ wifi_started' = FALSE
            /\ sta_start_pending' = FALSE
            /\ link' = "down"
            /\ nset' = [b \in EventBits |-> 0]
            /\ event_bits' = {}
            /\ initialized' = FALSE
            /\ status' = WIFI_STATUS_DISCONNECTED
            /\ retry_count' = 0
            /\ disc_run' = 0
            /\ event_group' = FALSE
            /\ netif_instance' = FALSE
            /\ wifi_handler_instance' = FALSE
            /\ ip_handler_instance' = FALSE
    /\ UNCHANGED <<max_retry, netif_live, http, pc, bits, got_ip_from>>
    /\ NotCalled

\* ------------------------------------------------------------ the queries
\* line 267
wifi_manager_is_connected_any == initialized
wifi_manager_is_connected ==
    initialized /\ status = WIFI_STATUS_CONNECTED

\* what every query leaves alone: the whole context, the event bits and
\* the driver
QueryFrame ==
    UNCHANGED <<ctx, event_bits, driver, max_retry, netif_live, http, pc,
                bits, disc_run, nset, got_ip_from>>

is_connected ==
    /\ pc = "idle"
    /\ last_call' = "is_connected"
    /\ last_op' = "is_connected"
    /\ teardown' = FALSE
    /\ status_at_call' = "none"
    /\ ret' = (IF wifi_manager_is_connected THEN "true" ELSE "false")
    /\ QueryFrame
    /\ Called({"cycle"}, IF ret' = "true" THEN "sensor_read" ELSE "status")

wifi_manager_get_status ==
    /\ pc = "idle"
    /\ last_call' = "get_status"
    /\ last_op' = "get_status"
    /\ teardown' = FALSE
    /\ status_at_call' = "none"
    /\ ret' = status
    /\ QueryFrame
    /\ Called({"report_wifi"}, "report_http")

wifi_manager_get_retry_count ==
    /\ pc = "idle"
    /\ last_call' = "get_retry_count"
    /\ last_op' = "get_retry_count"
    /\ teardown' = FALSE
    /\ status_at_call' = "none"
    /\ ret' = ToString(retry_count)
    /\ QueryFrame
    /\ NotCalled

\* the out-pointers the callers pass (main.c:123, 131, 176, 185, 224): the
\* address of a local
OutPointers == {"valid"}

\* rssi is the out-pointer of the call; read is the result of
\* esp_wifi_sta_get_ap_info
wifi_manager_get_rssi ==
    /\ pc = "idle"
    /\ last_call' = "get_rssi"
    /\ teardown' = FALSE
    /\ status_at_call' = "none"
    /\ \E rssi \in OutPointers, read \in {ESP_OK, ESP_ERR_WIFI_NOT_CONNECT} :
         /\ last_op' = (IF rssi = "NULL" THEN "get_rssi_null" ELSE "get_rssi")
         /\ ret' = (IF rssi = "NULL" THEN ESP_ERR_INVALID_ARG
                    ELSE IF ~wifi_manager_is_connected
                         THEN ESP_ERR_WIFI_NOT_CONNECT
                         ELSE read)
    /\ QueryFrame
    /\ Called({"rssi"}, "cycle")

\* ip_info is the out-pointer of the call; read is the result of
\* esp_netif_get_ip_info
wifi_manager_get_ip_info ==
    /\ pc = "idle"
    /\ last_call' = "get_ip_info"
    /\ teardown' = FALSE
    /\ status_at_call' = "none"
    /\ \E ip_info \in OutPointers, read \in {ESP_OK, ESP_FAIL} :
         /\ last_op' = (IF ip_info = "NULL" THEN "get_ip_info_null"
                        ELSE "get_ip_info")
         /\ ret' = (IF ip_info = "NULL" THEN ESP_ERR_INVALID_ARG
                    ELSE IF ~wifi_manager_is_connected
                         THEN ESP_ERR_WIFI_NOT_CONNECT
                         ELSE read)
    /\ QueryFrame
    /\ Called({"ip_info"}, "rssi")

\* ====================================================================
\* Delivery Client (main/http_client.c).  Its functions are called by the
\* orchestration task only, one at a time; http_event_handler runs inside
\* esp_http_client_perform, in the caller's task.
\* ====================================================================
ESP_ERR_HTTP_CONNECT == "ESP_ERR_HTTP_CONNECT"

\* results of esp_http_client_perform
PerformResults == {ESP_OK, ESP_ERR_TIMEOUT, ESP_ERR_HTTP_CONNECT, ESP_FAIL}
\* values of esp_http_client_get_status_code
StatusCodes == {199, 200, 300}
\* values of evt->data_len
ChunkLens == {150, 512}

\* the k-th byte of a response body; 0 is the terminator '\0'
Body(k) == k

\* ------------------------------------------------------ http_event_handler
\* line 70.  The subtraction is made in size_t: a result below 0 stands for
\* the wrapped value, 2^32 more, which is above every int.
available_space_full(size, len) == size - len
available_space(size, len) == size - len - 1

\* line 71: the comparison is made in size_t, data_len being positive
copy_len_whole(data_len, space) == data_len
copy_len(data_len, space) ==
    IF space < 0 \/ data_len < space THEN data_len ELSE space

\* lines 74-77: memcpy of n bytes of the response, from offset `from` of the
\* body, to index len of the block, and the terminator behind them
Store(block, len, from, n) ==
    [i \in DOMAIN block |->
        IF i >= len /\ i < len + n THEN Body(from + (i - len) + 1)
        ELSE IF i = len + n THEN 0
        ELSE block[i]]

\* lines 65-80
on_HTTP_EVENT_ON_DATA ==
    /\ hpc = "perform"
    /\ nchunks < MaxChunks
    /\ \E data_len \in ChunkLens :
        /\ received' = received + data_len
        /\ LET len == last_response.response_data_len
               n == copy_len(data_len,
                             available_space(response_buffer_size, len))
           IN IF response_buffer # "NULL" /\ data_len > 0 /\ n > 0
              THEN /\ heap' = Store(heap, len, received, n)
                   /\ last_response' =
                        [last_response EXCEPT !.response_data_len = len + n]
                   /\ hi_write' = (IF len + n > hi_write THEN len + n
                                   ELSE hi_write)
              ELSE UNCHANGED <<heap, last_response, hi_write>>
    /\ nchunks' = nchunks + 1
    /\ h_op' = "event"
    /\ UNCHANGED <<http_initialized, stats, response_buffer,
                   response_buffer_size, hpc, client, esp_timer, hcall,
                   nerr, wifi>>
    /\ UNCHANGED app

\* lines 48-51
on_HTTP_EVENT_ERROR ==
    /\ hpc = "perform"
    /\ nerr < MaxErrorEvents
    /\ stats' = [stats EXCEPT !.network_errors = @ + 1]
    /\ nerr' = nerr + 1
    /\ h_op' = "event"
    /\ UNCHANGED <<http_initialized, last_response, response_buffer,
                   response_buffer_size, heap, hpc, client, esp_timer,
                   hcall, received, nchunks, hi_write, wifi>>
    /\ UNCHANGED app

\* lines 53-63, 82-92: the events that are only logged
on_HTTP_EVENT_other ==
    /\ hpc = "perform"
    /\ h_op' = "event"
    /\ UNCHANGED <<hctx, hpc, client, esp_timer, hcall, request, hi_write,
                   wifi>>
    /\ UNCHANGED app

http_event_handler ==
    \/ on_HTTP_EVENT_ON_DATA
    \/ on_HTTP_EVENT_ERROR
    \/ on_HTTP_EVENT_other

\* -------------------------------------------------------- http_client_init
\* lines 100-131; block is the result of malloc
http_client_init ==
    /\ hpc = "idle"
    /\ h_call' = "init"
    /\ h_op' = "call"
    /\ h_out' = "none"
    /\ IF http_initialized
       THEN /\ h_ret' = ESP_OK
            /\ UNCHANGED <<hctx, hi_write, request, stage, transport>>
       ELSE \E block \in {"NULL", "heap"} :
            /\ response_buffer_size' = 512
            /\ response_buffer' = block
            /\ IF block = "NULL"
               THEN /\ h_ret' = ESP_ERR_NO_MEM
                    /\ UNCHANGED <<http_initialized, stats, last_response,
                                   heap, hi_write, request, stage,
                                   transport>>
               ELSE /\ heap' = [i \in 0..(512 - 1) |-> Indeterminate]
                    /\ hi_write' = -1
                    /\ received' = 0
                    /\ nchunks' = 0
                    /\ nerr' = 0
                    /\ stage' = "none"
                    /\ transport' = "none"
                    /\ stats' = [ZeroStats EXCEPT !.initialized = TRUE]
                    /\ last_response' =
                         [ZeroResponse EXCEPT !.response_data = block]
                    /\ http_initialized' = TRUE
                    /\ h_ret' = ESP_OK
    /\ UNCHANGED <<hpc, client, esp_timer, stats_at_call, wifi>>
    /\ Called({"http_init"}, ESP_ERROR_CHECK(h_ret', "connect"))

\* ------------------------------------------------------- perform_http_post
\* lines 299, 330, 353, 384, 414, 433: if (!s_context.initialized)
ClientRejected_never == FALSE
ClientRejected == ~http_initialized

\* a call that returns code before it has touched the context
Reject(code, reached) ==
    /\ h_ret' = code
    /\ stage' = reached
    /\ UNCHANGED <<hctx, hpc, client, hi_write, request>>

\* line 263
StatusIsSuccess_inclusive(status_code) ==
    status_code >= 200 /\ status_code <= 300
StatusIsSuccess(status_code) == status_code >= 200 /\ status_code < 300

\* lines 233-236: esp_http_client_init returned NULL
StatsOnNoHandle_counted ==
    [stats EXCEPT !.failed_requests = @ + 1, !.total_requests = @ + 1]
StatsOnNoHandle == [stats EXCEPT !.failed_requests = @ + 1]

\* lines 207-248, up to the call of esp_http_client_perform; handle is the
\* result of esp_http_client_init
perform_http_post(url, json_data) ==
    IF url = "NULL" \/ json_data = "NULL"
    THEN Reject(ESP_ERR_INVALID_ARG, "invalid_arg")
    ELSE /\ received' = 0
         /\ nchunks' = 0
         /\ nerr' = 0
         /\ last_response' =
              [ZeroResponse EXCEPT !.response_data = response_buffer]
         /\ IF response_buffer # "NULL"
            THEN /\ heap' = [heap EXCEPT ![0] = 0]
                 /\ hi_write' = (IF hi_write < 0 THEN 0 ELSE hi_write)
            ELSE UNCHANGED <<heap, hi_write>>
         /\ \E handle \in {"NULL", "handle"} :
              /\ client' = handle
              /\ IF handle = "NULL"
                 THEN /\ stats' = StatsOnNoHandle
                      /\ h_ret' = ESP_FAIL
                      /\ stage' = "no_handle"
                      /\ hpc' = "idle"
                 ELSE /\ stats' = [stats EXCEPT
                                     !.total_requests = @ + 1,
                                     !.last_request_time = esp_timer']
                      /\ h_ret' = "pending"
                      /\ stage' = "perform"
                      /\ hpc' = "perform"
         /\ UNCHANGED <<http_initialized, response_buffer,
                        response_buffer_size>>

\* lines 268-271: the statistics after an answer outside 200-299
StatsOnRefusal_network(status_code) ==
    [stats EXCEPT !.last_status_code = status_code,
                  !.failed_requests = @ + 1,
                  !.network_errors = @ + 1]
StatsOnRefusal(status_code) ==
    [stats EXCEPT !.last_status_code = status_code,
                  !.failed_requests = @ + 1]

\* lines 273-282: the statistics after esp_http_client_perform failed
StatsOnTransportFailure_status(err) ==
    IF err = ESP_ERR_TIMEOUT
    THEN [stats EXCEPT !.failed_requests = @ + 1,
                       !.timeout_count = @ + 1,
                       !.last_status_code = 0]
    ELSE [stats EXCEPT !.failed_requests = @ + 1,
                       !.network_errors = @ + 1,
                       !.last_status_code = 0]
StatsOnTransportFailure(err) ==
    IF err = ESP_ERR_TIMEOUT
    THEN [stats EXCEPT !.failed_requests = @ + 1,
                       !.timeout_count = @ + 1]
    ELSE [stats EXCEPT !.failed_requests = @ + 1,
                       !.network_errors = @ + 1]

\* line 285: esp_http_client_cleanup(client) ends every request that got a
\* handle, whatever err is
ClientAfterPerform_leaked(err) == IF err = ESP_OK THEN "NULL" ELSE client
ClientAfterPerform(err) == "NULL"

\* lines 251-287, from the return of esp_http_client_perform, and the
\* return of the public function that called perform_http_post
perform_http_post_return ==
    /\ hpc = "perform"
    /\ \E err \in PerformResults :
        /\ (nerr > 0 => err # ESP_OK)
        /\ transport' = err
        /\ client' = ClientAfterPerform(err)
        /\ IF err = ESP_OK
           THEN \E status_code \in StatusCodes,
                   content_length \in {received} :
                /\ last_response' =
                     [last_response EXCEPT
                        !.status_code = status_code,
                        !.content_length = content_length,
                        !.success = StatusIsSuccess(status_code)]
                /\ IF StatusIsSuccess(status_code)
                   THEN /\ stats' = [stats EXCEPT
                                       !.last_status_code = status_code,
                                       !.successful_requests = @ + 1]
                        /\ h_ret' = ESP_OK
                   ELSE /\ stats' = StatsOnRefusal(status_code)
                        /\ h_ret' = ESP_FAIL
           ELSE /\ stats' = StatsOnTransportFailure(err)
                /\ h_ret' = err
                /\ UNCHANGED last_response
    /\ hpc' = "idle"
    /\ h_op' = "return"
    /\ stage' = "performed"
    /\ UNCHANGED <<http_initialized, response_buffer, response_buffer_size,
                   heap, esp_timer, h_call, h_out, stats_at_call, request,
                   hi_write, wifi>>
    /\ AfterPost

\* ---------------------------------------------------- the posting functions
PostingFunctions ==
    {"post_sensor_data", "post_json", "post_to_endpoint", "test_connectivity"}

\* what every posting function does to the history: time has passed since
\* the call before
PostCall(name) ==
    /\ hpc = "idle"
    /\ esp_timer < MaxCalls
    /\ esp_timer' = esp_timer + 1
    /\ h_call' = name
    /\ h_op' = "call"
    /\ h_out' = "none"
    /\ transport' = "none"
    /\ stats_at_call' = stats
    /\ UNCHANGED wifi

\* the failure of http_client_create_json (lines 308 and 362)
StatsOnJsonFailure == [stats EXCEPT !.failed_requests = @ + 1]

\* lines 293-319; json_string is the result of http_client_create_json
http_client_post_sensor_data ==
    /\ PostCall("post_sensor_data")
    /\ \E data \in {"NULL", "data"}, json_string \in {"NULL", "json"} :
         IF data = "NULL"
         THEN Reject(ESP_ERR_INVALID_ARG, "invalid_arg")
         ELSE IF ClientRejected
         THEN Reject(ESP_ERR_INVALID_STATE, "invalid_state")
         ELSE IF json_string = "NULL"
         THEN /\ stats' = StatsOnJsonFailure
              /\ h_ret' = ESP_FAIL
              /\ stage' = "json_failed"
              /\ UNCHANGED <<http_initialized, last_response,
                             response_buffer, response_buffer_size, heap,
                             hpc, client, hi_write, request>>
         ELSE perform_http_post("API_ENDPOINT", json_string)
    /\ apc \in {"free", "post"} /\ AfterPost

\* lines 336-339: text that http_client_validate_json refuses
InvalidJson_counted ==
    /\ h_ret' = ESP_ERR_INVALID_ARG
    /\ stage' = "invalid_json"
    /\ stats' = [stats EXCEPT !.failed_requests = @ + 1]
    /\ UNCHANGED <<http_initialized, last_response, response_buffer,
                   response_buffer_size, heap, hpc, client, hi_write,
                   request>>
InvalidJson == Reject(ESP_ERR_INVALID_ARG, "invalid_json")

\* lines 324-342; valid is the result of http_client_validate_json
http_client_post_json ==
    /\ PostCall("post_json")
    /\ \E json_data \in {"NULL", "json"}, valid \in BOOLEAN :
         IF json_data = "NULL"
         THEN Reject(ESP_ERR_INVALID_ARG, "invalid_arg")
         ELSE IF ClientRejected
         THEN Reject(ESP_ERR_INVALID_STATE, "invalid_state")
         ELSE IF ~valid
         THEN InvalidJson
         ELSE perform_http_post("API_ENDPOINT", json_data)
    /\ NotCalled

\* lines 347-373
http_client_post_to_endpoint ==
    /\ PostCall("post_to_endpoint")
    /\ \E data \in {"NULL", "data"}, endpoint_url \in {"NULL", "url"},
          json_string \in {"NULL", "json"} :
         IF data = "NULL" \/ endpoint_url = "NULL"
         THEN Reject(ESP_ERR_INVALID_ARG, "invalid_arg")
         ELSE IF ClientRejected
         THEN Reject(ESP_ERR_INVALID_STATE, "invalid_state")
         ELSE IF json_string = "NULL"
         THEN /\ stats' = StatsOnJsonFailure
              /\ h_ret' = ESP_FAIL
              /\ stage' = "json_failed"
              /\ UNCHANGED <<http_initialized, last_response,
                             response_buffer, response_buffer_size, heap,
                             hpc, client, hi_write, request>>
         ELSE perform_http_post(endpoint_url, json_string)
    /\ NotCalled

\* lines 431-451
http_client_test_connectivity ==
    /\ PostCall("test_connectivity")
    /\ IF ClientRejected
       THEN Reject(ESP_ERR_INVALID_STATE, "invalid_state")
       ELSE perform_http_post("API_ENDPOINT", "test_json")
    /\ NotCalled

\* --------------------------------------------- the other public functions
\* what they do to the history
OtherCall(name) ==
    /\ hpc = "idle"
    /\ h_call' = name
    /\ h_op' = "call"
    /\ UNCHANGED <<hpc, client, esp_timer, stats_at_call, wifi>>

\* lines 378-394
http_client_get_last_response ==
    /\ OtherCall("get_last_response")
    /\ \E response \in OutPointers :
         IF response = "NULL"
         THEN h_ret' = ESP_ERR_INVALID_ARG /\ h_out' = "none"
         ELSE IF ClientRejected
         THEN h_ret' = ESP_ERR_INVALID_STATE /\ h_out' = "none"
         ELSE IF stats.total_requests = 0
         THEN h_ret' = ESP_ERR_INVALID_STATE /\ h_out' = "none"
         ELSE h_ret' = ESP_OK /\ h_out' = last_response
    /\ UNCHANGED <<hctx, hi_write, request, stage, transport>>
    /\ Called({"last_response"}, "status")

\* lines 399-407
http_client_get_stats ==
    /\ OtherCall("get_stats")
    /\ \E out \in OutPointers :
         IF out = "NULL"
         THEN h_ret' = ESP_ERR_INVALID_ARG /\ h_out' = "none"
         ELSE h_ret' = ESP_OK /\ h_out' = stats
    /\ UNCHANGED <<hctx, hi_write, request, stage, transport>>
    /\ Called({"get_stats", "report_http"},
              IF apc = "get_stats" THEN "status" ELSE "delay")

\* lines 419-423: the statistics are cleared, the flag in them is put back
StatsAfterReset_keeps_status ==
    [ZeroStats EXCEPT !.initialized = stats.initialized,
                      !.last_status_code = stats.last_status_code]
StatsAfterReset == [ZeroStats EXCEPT !.initialized = stats.initialized]

\* lines 412-426
http_client_reset_stats ==
    /\ OtherCall("reset_stats")
    /\ h_out' = "none"
    /\ IF ClientRejected
       THEN h_ret' = ESP_ERR_INVALID_STATE /\ UNCHANGED stats
       ELSE /\ h_ret' = ESP_OK
            /\ stats' = StatsAfterReset
    /\ UNCHANGED <<http_initialized, last_response, response_buffer,
                   response_buffer_size, heap, hi_write, request, stage,
                   transport>>
    /\ NotCalled

\* lines 456-475
http_client_cleanup ==
    /\ OtherCall("cleanup")
    /\ h_out' = "none"
    /\ h_ret' = ESP_OK
    /\ IF ~http_initialized
       THEN UNCHANGED <<hctx, hi_write, request, stage, transport>>
       ELSE /\ response_buffer' = "NULL"
            /\ heap' = NoBlock
            /\ hi_write' = -1
            /\ http_initialized' = FALSE
            /\ stats' = ZeroStats
            /\ last_response' = ZeroResponse
            /\ response_buffer_size' = 0
            /\ received' = 0
            /\ nchunks' = 0
            /\ nerr' = 0
            /\ stage' = "none"
            /\ transport' = "none"
    /\ NotCalled

HttpNext ==
    \/ http_client_init
    \/ http_client_post_sensor_data
    \/ http_client_post_json
    \/ http_client_post_to_endpoint
    \/ http_client_test_connectivity
    \/ perform_http_post_return
    \/ on_HTTP_EVENT_ON_DATA
    \/ on_HTTP_EVENT_ERROR
    \/ on_HTTP_EVENT_other
    \/ http_client_get_last_response
    \/ http_client_get_stats
    \/ http_client_reset_stats
    \/ http_client_cleanup

\* The Delivery Client never reads the retry budget: one build is enough.
HttpInit == Init /\ max_retry = 0

HttpSpec == HttpInit /\ [][HttpNext]_vars

HttpTypeOK ==
    /\ http_initialized \in BOOLEAN
    /\ hpc \in {"idle", "perform"}
    /\ response_buffer \in {"NULL", "heap"}
    /\ http_initialized => response_buffer = "heap"
    /\ response_buffer = "heap" => DOMAIN heap = 0..(response_buffer_size - 1)
    /\ esp_timer \in 0..MaxCalls
    /\ nchunks \in 0..MaxChunks
    /\ nerr \in 0..MaxErrorEvents
    /\ (hpc = "perform") = (client = "handle")

\* --------------------------------------------------------- specifications
\* ------------------------------------------------------------ app_main
\* lines 48-68 and 251: nvs_flash_init, checked
init_nvs_flash ==
    /\ apc = "boot"
    /\ \E rc \in {ESP_OK, ESP_FAIL} :
         apc' = ESP_ERROR_CHECK(rc, "wifi_init")
    /\ UNCHANGED <<wifi_ret, wifi, http>>

\* lines 90-95: sensor_service_init returns ESP_OK (sensor_service.c:109-137)
sensor_service_init ==
    /\ apc = "sensor_init"
    /\ apc' = ESP_ERROR_CHECK(ESP_OK, "http_init")
    /\ UNCHANGED <<wifi_ret, wifi, http>>

\* lines 158-164: a reading that failed ends the cycle's transmission
sensor_service_read ==
    /\ apc = "sensor_read"
    /\ \E rc \in {ESP_OK, ESP_FAIL} :
         apc' = (IF rc = ESP_OK THEN "post" ELSE "status")
    /\ UNCHANGED <<wifi_ret, wifi, http>>

\* lines 200-236: every tenth call reports; status_counter is not kept,
\* the call reports or not
display_application_status ==
    /\ apc = "status"
    /\ \E report \in BOOLEAN :
         apc' = (IF report THEN "report_wifi" ELSE "delay")
    /\ UNCHANGED <<wifi_ret, wifi, http>>

\* line 282: the period between two cycles
vTaskDelay ==
    /\ apc = "delay"
    /\ apc' = "cycle"
    /\ UNCHANGED <<wifi_ret, wifi, http>>

\* app_main (lines 243-283) with the event task and the transport's
\* callbacks around it. Left out are the events that are only logged and
\* the transport's data callbacks: app_main reads neither the log nor the
\* body, and HttpSpec has both.
AppNext ==
    \/ init_nvs_flash
    \/ wifi_manager_init
    \/ sensor_service_init
    \/ http_client_init
    \/ connect_enter
    \/ connect_reset_count
    \/ connect_set_connecting
    \/ connect_start
    \/ connect_wait
    \/ connect_wait_timeout
    \/ connect_wait_expired
    \/ connect_return
    \/ wifi_manager_get_ip_info
    \/ wifi_manager_get_rssi
    \/ is_connected
    \/ sensor_service_read
    \/ http_client_post_sensor_data
    \/ perform_http_post_return
    \/ on_HTTP_EVENT_ERROR
    \/ http_client_get_last_response
    \/ http_client_get_stats
    \/ display_application_status
    \/ wifi_manager_get_status
    \/ vTaskDelay
    \/ on_STA_START
    \/ on_STA_DISCONNECTED
    \/ on_STA_GOT_IP

\* One build, with an allowance of one retry.
AppInit ==
    /\ StaticInit
    /\ max_retry = 1
    /\ apc = "boot"
    /\ wifi_ret = "none"

AppSpec == AppInit /\ [][AppNext]_vars

AppPositions ==
    {"boot", "wifi_init", "sensor_init", "http_init", "connect",
     "connecting", "ip_info", "rssi", "cycle", "sensor_read", "post",
     "posting", "last_response", "get_stats", "status", "report_wifi",
     "report_http", "delay", "abort"}

AppTypeOK ==
    /\ apc \in AppPositions
    /\ wifi_ret \in {"none", ESP_OK, ESP_FAIL, ESP_ERR_TIMEOUT, ESP_ERR_WIFI,
                      ESP_ERR_INVALID_STATE}
    /\ (apc = "connecting") = (pc # "idle")
    /\ (apc = "posting") = (hpc = "perform")

Next ==
    \/ wifi_manager_init
    \/ connect_enter
    \/ connect_reset_count
    \/ connect_set_connecting
    \/ connect_start
    \/ connect_wait
    \/ connect_wait_timeout
    \/ connect_wait_expired
    \/ connect_return
    \/ wifi_manager_disconnect
    \/ wifi_manager_cleanup
    \/ is_connected
    \/ wifi_manager_get_status
    \/ wifi_manager_get_retry_count
    \/ wifi_manager_get_rssi
    \/ wifi_manager_get_ip_info
    \/ on_STA_START
    \/ on_STA_DISCONNECTED
    \/ on_STA_GOT_IP
    \/ on_other_event

Spec == Init /\ [][Next]_vars

\* The orchestration task is scheduled again whenever it can run, and the
\* tick that ends the bounded wait arrives.
ConnectStep ==
    \/ connect_reset_count
    \/ connect_set_connecting
    \/ connect_start
    \/ connect_wait
    \/ connect_wait_timeout
    \/ connect_wait_expired
    \/ connect_return

LiveSpec == Spec /\ WF_vars(ConnectStep)

TypeOK ==
    /\ initialized \in BOOLEAN
    /\ status \in wifi_status_t
    /\ retry_count \in 0..(MaxRetryBound + 1)
    /\ event_bits \subseteq EventBits
    /\ bits \subseteq EventBits
    /\ pc \in {"idle", "c217", "c218", "c221", "c243", "wait", "expired", "c249"}
    /\ disc_run \in 0..(max_retry + 1)
    /\ link \in {"down", "joining", "up"}
    /\ wifi_started => initialized
    /\ initialized => event_group
    /\ netif_live \in BOOLEAN
    /\ teardown \in BOOLEAN
    /\ status_at_call \in wifi_status_t \cup {"none"}
    /\ netif_instance => netif_live

\* -------------------------------------------------------------- properties

\* C1: for every max >= 0, with the retry count reset to 0 (as connect()
\* does), the k-th disconnected event in a row with no address-acquired
\* event in between leaves the state Connecting and the count k while
\* k <= max; the (max+1)-th leaves the state Failed, the failed bit set and
\* the count max.
C1_RetryBudget ==
    /\ retry_count = (IF disc_run < max_retry THEN disc_run ELSE max_retry)
    /\ last_op = "STA_DISCONNECTED" =>
         IF disc_run <= max_retry
         THEN status = WIFI_STATUS_CONNECTING /\ retry_count = disc_run
         ELSE /\ status = WIFI_STATUS_FAILED
              /\ WIFI_FAIL_BIT \in event_bits
              /\ retry_count = max_retry

\* max+1 = 3 disconnected events in a row after a connect() call
C1_Witness ==
    /\ last_call = "connect"
    /\ last_op = "STA_DISCONNECTED"
    /\ max_retry = 2
    /\ disc_run = 3
    /\ status = WIFI_STATUS_FAILED
    /\ retry_count = 2

\* C2: when connect() is about to request the interface start the flags
\* hold no bit older than this call, and the bits its wait returns with
\* were all set by the callback context since this call was entered.
C2_NoStaleFlag ==
    /\ pc = "c221" => \A b \in event_bits : nset[b] > 0
    /\ pc = "c249" => \A b \in bits : nset[b] > 0

\* C3: connect() returns success only having observed the connected bit,
\* and the state is Connected at the moment it returns.
C3_SuccessIsConnected ==
    (last_call = "connect" /\ ret = ESP_OK
        /\ last_op \in {"connect_return", "connect_enter"}) =>
      /\ WIFI_CONNECTED_BIT \in event_bits
      /\ status = WIFI_STATUS_CONNECTED

\* C4: connect() returns the retries-exhausted failure only having observed
\* the failed bit and not the connected bit, and the state is Failed at the
\* moment it returns.
C4_FailureIsFailed ==
    (last_op = "connect_return" /\ ret = ESP_FAIL) =>
      /\ WIFI_FAIL_BIT \in bits
      /\ WIFI_CONNECTED_BIT \notin bits
      /\ status = WIFI_STATUS_FAILED

C6_ConnectReturns == (pc # "idle") ~> (pc = "idle")

\* connect() has returned through the expiry of its wait
C6_Witness ==
    /\ last_op = "connect_return"
    /\ ret = ESP_ERR_TIMEOUT
    /\ pc = "idle"

C8_ConnectResets ==
    last_op = "connect_set_connecting" =>
      /\ event_bits = {}
      /\ retry_count = 0
      /\ status = WIFI_STATUS_CONNECTING

C10_ConnectedOnlyFromConnecting ==
    [][(status' = WIFI_STATUS_CONNECTED /\ status # WIFI_STATUS_CONNECTED) =>
         (last_op' = "STA_GOT_IP" /\ status = WIFI_STATUS_CONNECTING)]_vars

\* C10 as amended: the state becomes Connected only by an address-acquired
\* callback, whatever the state it is taken in.
C10_ConnectedOnlyByGotIp ==
    [][(status' = WIFI_STATUS_CONNECTED /\ status # WIFI_STATUS_CONNECTED) =>
         last_op' = "STA_GOT_IP"]_vars

\* an address-acquired callback taken in state Failed, after connect() had
\* returned timeout
C10_Witness ==
    /\ last_op = "STA_GOT_IP"
    /\ got_ip_from = WIFI_STATUS_FAILED
    /\ status = WIFI_STATUS_CONNECTED
    /\ last_call = "connect"
    /\ ret = ESP_ERR_TIMEOUT

\* C11 as stated: disconnect() called in Disconnected, Failed or Error
\* reports failure, requests no teardown and leaves the state unchanged.
C11_DisconnectOnlyWhenLinked ==
    (/\ last_op = "disconnect"
     /\ status_at_call \in {WIFI_STATUS_DISCONNECTED, WIFI_STATUS_FAILED,
                            WIFI_STATUS_ERROR})
    => (ret # ESP_OK /\ ~teardown /\ status = status_at_call)

\* C11 as amended: disconnect() is refused only in Disconnected, where it
\* reports failure, requests no teardown and leaves the state unchanged; in
\* every other state of an initialized manager it requests the teardown,
\* the state becomes Disconnected when the teardown succeeds and is left
\* unchanged when the teardown fails.
C11_DisconnectUnlessDisconnected ==
    last_op = "disconnect" =>
        IF status_at_call = WIFI_STATUS_DISCONNECTED
        THEN ret # ESP_OK /\ ~teardown /\ status = status_at_call
        ELSE /\ teardown
             /\ ret = ESP_OK => status = WIFI_STATUS_DISCONNECTED
             /\ ret # ESP_OK => status = status_at_call

\* disconnect() called in Failed after the retries ran out: the teardown is
\* requested and succeeds
C11_Witness ==
    /\ last_op = "disconnect"
    /\ status_at_call = WIFI_STATUS_FAILED
    /\ teardown
    /\ ret = ESP_OK
    /\ status = WIFI_STATUS_DISCONNECTED
    /\ disc_run > max_retry

\* C12: cleanup() of an initialized manager releases every resource
\* acquired by init(): both callback registrations, the interface object
\* and the event group.
C12_CleanupReleasesAll ==
    [][(wifi_manager_cleanup /\ initialized) =>
         /\ ~wifi_handler_instance'
         /\ ~ip_handler_instance'
         /\ ~event_group'
         /\ ~netif_instance'
         /\ ~netif_live']_vars

\* C13: while the manager is not initialized (before a successful init()
\* and after cleanup()), connect() and disconnect() return InvalidState
\* without changing the context or asking anything of the driver, and
\* isConnected() is false; the manager becomes initialized only by an
\* init() that returns success.
C13_UninitializedRejects ==
    /\ [](~initialized => ~wifi_manager_is_connected)
    /\ [][(~initialized /\ (connect_enter \/ wifi_manager_disconnect)) =>
            /\ ret' = ESP_ERR_INVALID_STATE
            /\ pc' = "idle"
            /\ ~teardown'
            /\ UNCHANGED <<ctx, event_bits, driver>>]_vars
    /\ [][(~initialized /\ initialized') =>
            (wifi_manager_init /\ ret' = ESP_OK)]_vars

\* connect() refused after a session that had reached Connected was cleaned
\* up
C13_Witness ==
    /\ last_op = "connect_enter"
    /\ ret = ESP_ERR_INVALID_STATE
    /\ ~initialized
    /\ got_ip_from # "none"

\* C14: isConnected(), status(), signalStrength(), addressInfo() and
\* retryCount() leave the context, the event bits and the driver unchanged;
\* signalStrength() and addressInfo(), given somewhere to store the answer,
\* return NotConnected whenever the state is not Connected.
C14_QueriesArePure ==
    /\ [][(\/ is_connected
           \/ wifi_manager_get_status
           \/ wifi_manager_get_retry_count
           \/ wifi_manager_get_rssi
           \/ wifi_manager_get_ip_info) =>
            UNCHANGED <<ctx, event_bits, driver, pc, bits>>]_vars
    /\ []((/\ last_op \in {"get_rssi", "get_ip_info"}
           /\ status # WIFI_STATUS_CONNECTED) =>
            ret = ESP_ERR_WIFI_NOT_CONNECT)

\* signalStrength() asked in Failed, after the retries ran out
C14_Witness ==
    /\ last_op = "get_rssi"
    /\ initialized
    /\ status = WIFI_STATUS_FAILED
    /\ retry_count = max_retry
    /\ ret = ESP_ERR_WIFI_NOT_CONNECT

\* C15: a posting call on an initialized client that got past its
\* argument checks adds at most one to successful + failed, and adds
\* exactly one to total unless serialization failed (then it adds none); so
\* a call that added one to failed because the request could not be carried
\* out has added one to total.
C15_CountsOncePerCall ==
    (/\ hpc = "idle"
     /\ h_call \in PostingFunctions
     /\ stage \in {"json_failed", "no_handle", "performed"})
    => /\ (stats.successful_requests - stats_at_call.successful_requests)
          + (stats.failed_requests - stats_at_call.failed_requests) \in {0, 1}
       /\ stats.total_requests - stats_at_call.total_requests
            = (IF stage = "json_failed" THEN 0 ELSE 1)

\* C16: when serialization fails in post() or postTo(), the call reports
\* failure and total, successful, failed, timeouts and network_errors are
\* what they were before the call.
C16_SerializationFailureCountsNothing ==
    (/\ hpc = "idle"
     /\ h_call \in {"post_sensor_data", "post_to_endpoint"}
     /\ stage = "json_failed")
    => /\ h_ret # ESP_OK
       /\ stats.total_requests = stats_at_call.total_requests
       /\ stats.successful_requests = stats_at_call.successful_requests
       /\ stats.failed_requests = stats_at_call.failed_requests
       /\ stats.timeout_count = stats_at_call.timeout_count
       /\ stats.network_errors = stats_at_call.network_errors

\* C17: the response buffer is never written at an index >= its capacity:
\* body_len <= capacity - 1 always, and whenever body_len > 0 the byte at
\* index body_len is the terminator, within and across requests.
C17_BufferBounded ==
    response_buffer # "NULL" =>
        /\ hi_write < response_buffer_size
        /\ last_response.response_data_len <= response_buffer_size - 1
        /\ last_response.response_data_len > 0 =>
             heap[last_response.response_data_len] = 0

\* the second request of a client: two callbacks whose data exceeds the
\* buffer, the last index of the buffer holding the terminator
C17_Witness ==
    /\ esp_timer = 2
    /\ stats.total_requests = 2
    /\ nchunks = 2
    /\ received > response_buffer_size
    /\ last_response.response_data_len = response_buffer_size - 1
    /\ hi_write = response_buffer_size - 1
    /\ heap[response_buffer_size - 1] = 0

\* C18: for one request whose data arrives in chunks c1..cn, the stored
\* length is min(len(c1) + ... + len(cn), capacity - 1), the stored bytes
\* are that prefix of the chunks' concatenation, and the excess is dropped
\* without changing the outcome of the request.
C18_StoredIsPrefix ==
    stage \in {"perform", "performed"} =>
        /\ last_response.response_data_len =
             (IF received < response_buffer_size - 1 THEN received
              ELSE response_buffer_size - 1)
        /\ \A i \in 0..(last_response.response_data_len - 1) :
             heap[i] = Body(i + 1)
        /\ (/\ stage = "performed"
            /\ h_call \in PostingFunctions
            /\ transport = ESP_OK
            /\ last_response.status_code = 200) => h_ret = ESP_OK

\* a 150-byte chunk then a 512-byte chunk: 511 bytes stored, the request
\* succeeds
C18_Witness ==
    /\ stage = "performed"
    /\ nchunks = 2
    /\ received = 150 + 512
    /\ last_response.response_data_len = 511
    /\ heap[149] = Body(150)
    /\ heap[510] = Body(511)
    /\ transport = ESP_OK
    /\ h_call = "post_sensor_data"
    /\ h_ret = ESP_OK

\* C19: the outcome of a posting call is the application error (ESP_FAIL)
\* iff the transport succeeded and the status is outside [200,300), the
\* timeout iff the transport reported a timeout, and a transport error for
\* every other transport failure: the outcome alone tells a non-2xx
\* response from a transport failure.
C19_OutcomeTellsFailures ==
    (/\ hpc = "idle"
     /\ h_call \in PostingFunctions
     /\ stage \in {"no_handle", "performed"})
    => /\ h_ret = ESP_FAIL <=>
            (/\ transport = ESP_OK
             /\ ~(/\ last_response.status_code >= 200
                  /\ last_response.status_code < 300))
       /\ h_ret = ESP_ERR_TIMEOUT <=> transport = ESP_ERR_TIMEOUT

\* C20: in every state the record's success flag is true iff
\* 200 <= status_code < 300; after a request whose transport failed the
\* status code is 0 and the flag false.
C20_SuccessIff2xx ==
    /\ last_response.success <=>
         (last_response.status_code >= 200 /\ last_response.status_code < 300)
    /\ (stage = "performed" /\ transport # ESP_OK) =>
         (last_response.status_code = 0 /\ ~last_response.success)

\* a request that times out, after one that was answered with a 2xx status
C20_Witness ==
    /\ stage = "performed"
    /\ transport = ESP_ERR_TIMEOUT
    /\ stats.successful_requests = 1
    /\ stats.last_status_code = 200
    /\ last_response.status_code = 0
    /\ ~last_response.success

\* C21: post(), postTo() and postRaw() reset the response record and the
\* buffer's write cursor before anything else, so when such a call on an
\* initialized client has returned without executing a request (the payload
\* could not be serialized, the text was not JSON, no transport handle), the
\* record holds no status, no body length and no success flag of an earlier
\* call.
C21_RecordResetByEveryPost ==
    (/\ hpc = "idle"
     /\ http_initialized
     /\ h_call \in {"post_sensor_data", "post_to_endpoint", "post_json"}
     /\ h_op = "call"
     /\ stage \in {"json_failed", "invalid_json", "no_handle"})
    => /\ last_response.status_code = 0
       /\ last_response.response_data_len = 0
       /\ last_response.success = FALSE

\* C22: once a request has been executed since init, lastResponse() hands
\* back the current response record, also after resetStats(); it refuses
\* with InvalidState only while no request has been issued.
C22_LastResponseAfterAnyRequest ==
    (/\ h_call = "get_last_response"
     /\ h_op = "call"
     /\ http_initialized
     /\ stage = "performed")
    => /\ h_ret = ESP_OK
       /\ h_out = last_response

\* the five counters of the statistics
Counters ==
    {"total_requests", "successful_requests", "failed_requests",
     "timeout_count", "network_errors"}

\* C23: while the client stays initialized, no step lowers any of the five
\* counters, except resetStats(), which sets every counter, the time of the
\* last request and the last status code to zero and keeps the initialized
\* flag.
C23_CountersOnlyGrowUntilReset ==
    [][(http_initialized /\ http_initialized')
       => IF http_client_reset_stats
          THEN /\ \A c \in Counters : stats'[c] = 0
               /\ stats'.last_request_time = 0
               /\ stats'.last_status_code = 0
               /\ stats'.initialized = stats.initialized
          ELSE \A c \in Counters : stats'[c] >= stats[c]]_vars

\* resetStats() has cleared the statistics of a session in which a request
\* was counted and answered
C23_Witness ==
    /\ http_initialized
    /\ h_call = "reset_stats"
    /\ h_ret = ESP_OK
    /\ stage = "performed"
    /\ last_response.status_code = 200
    /\ stats.total_requests = 0
    /\ stats.last_status_code = 0
    /\ stats.initialized

\* C24: postRaw() with text that is not well-formed JSON returns
\* InvalidArgument before a request is built: the step changes no counter,
\* leaves the response record and the stored body as they were, and holds no
\* transport handle.
C24_InvalidJsonTouchesNothing ==
    [][(http_client_post_json /\ stage' = "invalid_json")
       => /\ h_ret' = ESP_ERR_INVALID_ARG
          /\ stats' = stats
          /\ last_response' = last_response
          /\ heap' = heap
          /\ client' = "NULL"
          /\ hpc' = "idle"]_vars

\* malformed text was refused while the record still shows the answer of the
\* request before it
C24_Witness ==
    /\ h_call = "post_json"
    /\ stage = "invalid_json"
    /\ h_ret = ESP_ERR_INVALID_ARG
    /\ stats.total_requests = 1
    /\ stats.successful_requests = 1
    /\ last_response.status_code = 200
    /\ last_response.success
    /\ last_response.response_data_len > 0

\* C25: while the client is not initialized (before init(), after cleanup()),
\* post(), postRaw(), postTo(), testConnectivity(), resetStats() and
\* lastResponse(), called with non-null arguments, return InvalidState and
\* change neither the statistics nor the response record.
C25_UninitializedClientRejects ==
    [][(/\ ~http_initialized
        /\ \/ /\ \/ http_client_post_sensor_data
                 \/ http_client_post_json
                 \/ http_client_post_to_endpoint
                 \/ http_client_test_connectivity
              /\ stage' # "invalid_arg"
           \/ http_client_reset_stats
           \/ http_client_get_last_response)
       => /\ h_ret' = ESP_ERR_INVALID_STATE
          /\ stats' = stats
          /\ last_response' = last_response
          /\ hpc' = "idle"]_vars

\* a second posting call was refused by a client that is not initialized
C25_Witness ==
    /\ ~http_initialized
    /\ h_call = "post_to_endpoint"
    /\ h_op = "call"
    /\ stage = "invalid_state"
    /\ h_ret = ESP_ERR_INVALID_STATE
    /\ esp_timer = 2
    /\ stats = ZeroStats
    /\ last_response = ZeroResponse

\* C26: a request releases the transport handle it acquired before the call
\* returns, on every exit path (2xx, other status, timeout, other transport
\* failure): whenever no call is in progress no handle is held, so as many
\* handles have been released as were acquired.
C26_NoHandleOutsideACall ==
    /\ hpc = "idle" => client = "NULL"
    /\ hpc = "perform" => client = "handle"

\* a second request, which timed out, has returned and its handle is released
C26_Witness ==
    /\ hpc = "idle"
    /\ h_op = "return"
    /\ stage = "performed"
    /\ transport = ESP_ERR_TIMEOUT
    /\ stats.total_requests = 2
    /\ client = "NULL"

\* C28: a request that fails in the transport adds exactly one to failed and
\* exactly one to one of timeouts and network_errors: to timeouts if the
\* failure is a timeout, to network_errors otherwise; the error events the
\* transport delivers during the request add nothing more.
C28_OneFailureOneCause ==
    (/\ hpc = "idle"
     /\ h_op = "return"
     /\ stage = "performed"
     /\ transport \notin {ESP_OK, "none"})
    => /\ stats.failed_requests = stats_at_call.failed_requests + 1
       /\ IF transport = ESP_ERR_TIMEOUT
          THEN /\ stats.timeout_count = stats_at_call.timeout_count + 1
               /\ stats.network_errors = stats_at_call.network_errors
          ELSE /\ stats.network_errors = stats_at_call.network_errors + 1
               /\ stats.timeout_count = stats_at_call.timeout_count

\* C29: when the transport succeeds, the status code and the content length
\* are stored; a status in 200..299 sets success and adds one to successful
\* only; any other status clears success, adds one to failed only and the
\* call returns the failure code; timeouts and network_errors are as they
\* were when the call began.
C29_TransportSuccessAccounting ==
    (/\ hpc = "idle"
     /\ h_op = "return"
     /\ stage = "performed"
     /\ transport = ESP_OK)
    => /\ last_response.status_code \in StatusCodes
       /\ stats.last_status_code = last_response.status_code
       /\ last_response.content_length = received
       /\ stats.total_requests = stats_at_call.total_requests + 1
       /\ stats.timeout_count = stats_at_call.timeout_count
       /\ stats.network_errors = stats_at_call.network_errors
       /\ IF last_response.status_code >= 200 /\ last_response.status_code < 300
          THEN /\ last_response.success
               /\ h_ret = ESP_OK
               /\ stats.successful_requests = stats_at_call.successful_requests + 1
               /\ stats.failed_requests = stats_at_call.failed_requests
          ELSE /\ ~last_response.success
               /\ h_ret = ESP_FAIL
               /\ stats.successful_requests = stats_at_call.successful_requests
               /\ stats.failed_requests = stats_at_call.failed_requests + 1

\* the transport delivered a body and the status 300: the call has failed
\* and only failed has grown
C29_Witness ==
    /\ hpc = "idle"
    /\ h_op = "return"
    /\ transport = ESP_OK
    /\ last_response.status_code = 300
    /\ last_response.content_length > 0
    /\ h_ret = ESP_FAIL
    /\ stats.failed_requests = 1
    /\ stats.successful_requests = 0
    /\ stats.network_errors = 0

\* C27: an address-acquired event grants a fresh retry allowance whatever
\* was used before it: it leaves the count and the run of disconnected
\* events at 0; from there each disconnected event that finds fewer than
\* max events in the run re-issues the connect attempt and counts one, and
\* the one that finds max of them, the (max+1)-th, moves the state to Failed.
C27_FreshAllowanceAfterGotIp ==
    [][/\ on_STA_GOT_IP =>
            /\ retry_count' = 0
            /\ disc_run' = 0
       /\ on_STA_DISCONNECTED =>
            /\ retry_count = (IF disc_run < max_retry THEN disc_run
                                                      ELSE max_retry)
            /\ IF disc_run < max_retry
               THEN /\ link' = "joining"
                    /\ status' = WIFI_STATUS_CONNECTING
                    /\ retry_count' = disc_run + 1
               ELSE /\ link' = "down"
                    /\ status' = WIFI_STATUS_FAILED
                    /\ retry_count' = max_retry]_vars

\* the address was acquired during this connect(), after the count was
\* reset and with no reset since; max+1 = 3 disconnected events followed
\* and only the last of them set the failed bit and moved the state to
\* Failed
C27_Witness ==
    /\ max_retry = 2
    /\ got_ip_from = WIFI_STATUS_CONNECTING
    /\ nset[WIFI_CONNECTED_BIT] = 1
    /\ nset[WIFI_FAIL_BIT] = 1
    /\ last_op = "STA_DISCONNECTED"
    /\ disc_run = max_retry + 1
    /\ retry_count = max_retry
    /\ status = WIFI_STATUS_FAILED

\* C30: the status is updated under a discipline that keeps connect() and
\* the callback from losing each other's updates: connect() never replaces
\* a Connected that the callback stored after connect() had made the
\* decision it is acting on (its entry check, its read of the flags), which
\* would leave a state that neither order of the two operations produces.
C30_NoLostUpdate ==
    [][(connect_set_connecting \/ connect_return)
       => (status = WIFI_STATUS_CONNECTED => status' = WIFI_STATUS_CONNECTED)]_vars

\* C33: in every reachable state, under every interleaving of connect(),
\* disconnect() and the callback's events, the retry count is at least 0
\* and at most max.
C33_RetryCountInRange ==
    /\ retry_count >= 0
    /\ retry_count <= max_retry

\* after a disconnect() the disconnected events went on until the count
\* stood at max = 2 and one more of them found the allowance used up
C33_Witness ==
    /\ max_retry = 2
    /\ last_call = "disconnect"
    /\ last_op = "STA_DISCONNECTED"
    /\ retry_count = max_retry
    /\ disc_run = max_retry + 1
    /\ status = WIFI_STATUS_FAILED

\* C34: the handler of the disconnected event does not look at the state: a
\* disconnected event delivered in state Disconnected after a successful
\* disconnect(), with the count below max, counts one, re-issues the connect
\* attempt and stores Connecting.
C34_DisconnectedEventAfterDisconnect ==
    [][(/\ on_STA_DISCONNECTED
        /\ last_call = "disconnect"
        /\ ret = ESP_OK
        /\ status = WIFI_STATUS_DISCONNECTED
        /\ retry_count < max_retry)
       => /\ retry_count' = retry_count + 1
          /\ link' = "joining"
          /\ status' = WIFI_STATUS_CONNECTING]_vars

\* disconnect() took a Connected link down, and the disconnected event that
\* followed has put the state back to Connecting
C34_Witness ==
    /\ last_call = "disconnect"
    /\ ret = ESP_OK
    /\ status_at_call = WIFI_STATUS_CONNECTED
    /\ last_op = "STA_DISCONNECTED"
    /\ disc_run = 1
    /\ retry_count = 1
    /\ link = "joining"
    /\ status = WIFI_STATUS_CONNECTING

\* C35 as stated: in state Failed with the count at max, a disconnected
\* event issues no connect attempt and changes neither the state nor the
\* count; the state leaves Failed only through a step of connect(), an
\* address-acquired event, disconnect() or cleanup.
C35_FailedLeftOnlyByCalls ==
    [][(status = WIFI_STATUS_FAILED /\ retry_count = max_retry)
       => /\ on_STA_DISCONNECTED =>
               /\ link' = "down"
               /\ status' = WIFI_STATUS_FAILED
               /\ retry_count' = retry_count
          /\ status' # WIFI_STATUS_FAILED =>
               last_op' \in {"connect_set_connecting", "connect_start",
                             "STA_GOT_IP", "disconnect", "cleanup"}]_vars

\* C35 as amended: the same, and the state also leaves Failed through the
\* start event that the esp_wifi_start of a connect() call posted, which
\* may be handled after that call has returned timeout.
C35_FailedIsAbsorbing ==
    [][(status = WIFI_STATUS_FAILED /\ retry_count = max_retry)
       => /\ on_STA_DISCONNECTED =>
               /\ link' = "down"
               /\ status' = WIFI_STATUS_FAILED
               /\ retry_count' = retry_count
          /\ status' # WIFI_STATUS_FAILED =>
               last_op' \in {"connect_set_connecting", "connect_start",
                             "STA_START", "STA_GOT_IP", "disconnect",
                             "cleanup"}]_vars

\* connect() was woken by the failed bit, and before it returned one more
\* disconnected event found the state Failed and the count at max = 2
C35_Witness ==
    /\ max_retry = 2
    /\ pc = "c249"
    /\ bits = {WIFI_FAIL_BIT}
    /\ nset[WIFI_FAIL_BIT] = 2
    /\ nset[WIFI_CONNECTED_BIT] = 0
    /\ got_ip_from = "none"
    /\ last_op = "STA_DISCONNECTED"
    /\ link = "down"
    /\ retry_count = max_retry
    /\ status = WIFI_STATUS_FAILED

\* C37: when one of the interface steps of connect() (set mode, set config,
\* start) fails, connect() returns the error without waiting on the flags,
\* and at that return the state is Error and the retry count is 0.
C37_StartFailureLeavesError ==
    (last_op = "connect_start" /\ ret = ESP_ERR_WIFI)
    => /\ pc = "idle"
       /\ status = WIFI_STATUS_ERROR
       /\ retry_count = 0

\* C38: when the transport handle cannot be created, the request call adds
\* one to failed, leaves total, successful, timeouts, network_errors and
\* last_request_time as they were, executes no request and returns a
\* failure.
C38_NoHandleCountsOneFailure ==
    (/\ h_call \in PostingFunctions
     /\ h_op = "call"
     /\ stage = "no_handle")
    => /\ hpc = "idle"
       /\ client = "NULL"
       /\ transport = "none"
       /\ h_ret = ESP_FAIL
       /\ stats.failed_requests = stats_at_call.failed_requests + 1
       /\ stats.total_requests = stats_at_call.total_requests
       /\ stats.successful_requests = stats_at_call.successful_requests
       /\ stats.timeout_count = stats_at_call.timeout_count
       /\ stats.network_errors = stats_at_call.network_errors
       /\ stats.last_request_time = stats_at_call.last_request_time
       /\ stats.last_status_code = stats_at_call.last_status_code

\* after one answered request, a second call found no handle: failed is 1
\* above and total is still 1
C38_Witness ==
    /\ h_call = "post_sensor_data"
    /\ h_op = "call"
    /\ stage = "no_handle"
    /\ h_ret = ESP_FAIL
    /\ stats.total_requests = 1
    /\ stats.successful_requests = 1
    /\ stats.failed_requests = 1
    /\ stats.last_request_time = 1

C31_ConnectOnceThenRequests ==
    [][/\ connect_enter => (apc = "connect" /\ wifi_ret = "none")
       /\ apc' = "connect" => apc \in {"http_init", "connect"}
       /\ http_client_post_sensor_data =>
            /\ wifi_ret = ESP_OK
            /\ hpc = "idle"
            /\ client = "NULL"]_vars

\* the second request of the loop is in progress, after the one connect()
\* call returned success and the first request was completed
C31_Witness ==
    /\ apc = "posting"
    /\ wifi_ret = ESP_OK
    /\ hpc = "perform"
    /\ esp_timer = 2
    /\ stats.total_requests = 2
    /\ stats.successful_requests + stats.failed_requests = 1

\* C32: no failure returned by the Connection Manager or the Delivery Client
\* ends the process: after connect() has returned failure or timeout, and
\* after a post has returned a failure, app_main keeps running.
C32_NoFailureIsFatal ==
    /\ wifi_ret \notin {"none", ESP_OK} => apc # "abort"
    /\ (h_call = "post_sensor_data" /\ hpc = "idle" /\ h_ret # ESP_OK)
       => apc # "abort"

\* C36 as stated: a request is issued only in a cycle that began with
\* isConnected() true, connect() is not called again after startup, and
\* once the state is Failed after startup no request is issued and the
\* statistics never change again.
C36_NoRequestOnceFailed ==
    [][/\ http_client_post_sensor_data
            => (last_call = "is_connected" /\ ret = "true")
       /\ connect_enter => wifi_ret = "none"
       /\ (wifi_ret = ESP_OK /\ status = WIFI_STATUS_FAILED)
            => (~http_client_post_sensor_data /\ stats' = stats)]_vars

\* C36 as amended: the same, except that the transmission of the cycle that
\* was admitted before the state became Failed is still carried out: once
\* the state is Failed after startup it stays Failed, isConnected() answers
\* false, and outside that one transmission no transmission begins and the
\* statistics do not change.
C36_NoRequestAfterFailedCycle ==
    [][/\ http_client_post_sensor_data
            => (last_call = "is_connected" /\ ret = "true")
       /\ connect_enter => wifi_ret = "none"
       /\ (wifi_ret = ESP_OK /\ status = WIFI_STATUS_FAILED)
            => /\ status' = WIFI_STATUS_FAILED
               /\ is_connected => ret' = "false"
               /\ apc \notin {"sensor_read", "post", "posting"}
                    => /\ stats' = stats
                       /\ apc' \notin {"sensor_read", "post", "posting"}]_vars

\* after one request, the retries ran out and the next cycle was refused at
\* its start
C36_Witness ==
    /\ wifi_ret = ESP_OK
    /\ status = WIFI_STATUS_FAILED
    /\ retry_count = max_retry
    /\ apc = "status"
    /\ last_call = "is_connected"
    /\ ret = "false"
    /\ stats.total_requests = 1

====
